---- MODULE Spec2Model ----
(***************************************************************************)
(* Chari API stub (src/server.js): the in-memory fixture store mockData,   *)
(* the request handlers that read and mutate it, the API-key middleware,   *)
(* the transaction generator and the pagination of the list endpoints.     *)
(*                                                                         *)
(* Money is counted in centimes (1/100 MAD), so the fixture balance        *)
(* 3247.75 is 324775; the generator's unrounded amounts are counted in     *)
(* 1/1000 MAD.  A request field that is absent, or present and falsy, is   *)
(* the empty string (the number 0 for an amount): the handlers test        *)
(* fields only with `!field`.  Amounts are JSON numbers.                   *)
(***************************************************************************)
EXTENDS Integers, Sequences, FiniteSets, TLC

VARIABLES customers, registrations, pins, balances, transactions, req, resp, served,
          generated

vars == <<customers, registrations, pins, balances, transactions, req, resp, served,
          generated>>

(***************************************************************************)
(* Bounds of the model.                                                    *)
(***************************************************************************)
\* requests handled in one run of the store specification
MaxRequests == 2
\* requests handled in one run of the single-phone lifecycle specification
MaxLifecycle == 5
\* seeds of the generator's random source tried at start-up
NumSeeds == 1
\* largest limit / pageSize, offset and page number of a list request
MaxPageSize == 12
MaxOffset == 27
MaxPage == 4
\* seeds and counts of the calls of the generator tried on its own
MaxSeed == 7
MaxCount == 15

(***************************************************************************)
(* Program constants.                                                      *)
(***************************************************************************)
TxCount == 25
StartingBalance == 5000000
DefaultLimit == 10
DefaultPage == 1
DefaultBalance == 150000

Missing == ""

FixturePhones ==
    {"+212600000001", "+212600000002", "+212600000003",
     "+212600000004", "+212600000005", "+212600000006"}
FreshPhone == "+212600000009"
Phones == FixturePhones \cup {FreshPhone}

validChariKeys ==
    {"aslan_internal_key_123", "chari_api_key_123",
     "chari_internal_key_456", "demo-chari-api-key"}

(***************************************************************************)
(* JavaScript helpers.                                                     *)
(***************************************************************************)
\* an absolute value that keeps the sign
Abs_KeepsSign(n) == n

Abs(n) == IF n < 0 THEN -n ELSE n
Min(a, b) == IF a < b THEN a ELSE b
Max(a, b) == IF a < b THEN b ELSE a

\* obj[key] || dflt for a map of numbers: an absent key and a stored 0 both
\* give dflt
OrDefault(map, key, dflt) ==
    IF key \in DOMAIN map /\ map[key] # 0 THEN map[key] ELSE dflt

\* delete obj[key]
Delete(map, key) == [k \in DOMAIN map \ {key} |-> map[k]]

\* obj[key] = value
Put(map, key, value) == [k \in DOMAIN map \cup {key} |-> IF k = key THEN value ELSE map[k]]

(***************************************************************************)
(* Decimal text: String(n), padStart and parseInt on sequences of          *)
(* characters.                                                             *)
(***************************************************************************)
DigitChars == <<"0", "1", "2", "3", "4", "5", "6", "7", "8", "9">>

DigitValue(c) == (CHOOSE d \in 1..10 : DigitChars[d] = c) - 1

IsDigit(c) == \E d \in 1..10 : DigitChars[d] = c

RECURSIVE NatToString(_)
NatToString(n) ==
    IF n < 10 THEN <<DigitChars[n + 1]>>
    ELSE Append(NatToString(n \div 10), DigitChars[(n % 10) + 1])

\* String(n) for an integer n
StringOf(n) == IF n < 0 THEN <<"-">> \o NatToString(-n) ELSE NatToString(n)

RECURSIVE padStart(_, _, _)
padStart(s, width, fill) ==
    IF Len(s) >= width THEN s ELSE padStart(<<fill>> \o s, width, fill)

\* the value of the longest prefix of digits of s (0 for none), and its length
RECURSIVE DigitPrefix(_, _, _)
DigitPrefix(s, k, acc) ==
    IF k > Len(s) \/ ~IsDigit(s[k]) THEN [value |-> acc, upto |-> k - 1]
    ELSE DigitPrefix(s, k + 1, acc * 10 + DigitValue(s[k]))

NaN == "NaN"

\* parseInt(s): an optional sign, then the leading digits; NaN without a digit
parseInt(s) ==
    LET neg == Len(s) > 0 /\ s[1] = "-"
        pos == Len(s) > 0 /\ s[1] = "+"
        first == IF neg \/ pos THEN 2 ELSE 1
        p == DigitPrefix(s, first, 0)
    IN  IF p.upto < first THEN NaN
        ELSE IF neg THEN -p.value ELSE p.value

(***************************************************************************)
(* generateFakeTransactions.  Math.random is a random source: the draw     *)
(* number `draw` of iteration i under a seed, scaled to 0..n-1.            *)
(***************************************************************************)
transactionTypes == <<"CASHIN", "CASHOUT", "TRANSFER_IN", "TRANSFER_OUT", "BILL_PAYMENT">>

descriptions(type) ==
    CASE type = "CASHIN" ->
            <<"Mobile money deposit", "Cash deposit at agent", "Cash deposit at branch",
              "ATM deposit", "Bank transfer in">>
      [] type = "CASHOUT" ->
            <<"ATM withdrawal", "Cash withdrawal at agent", "Cash withdrawal at branch",
              "Point of sale">>
      [] type = "TRANSFER_IN" ->
            <<"Transfer from +212611111111", "Transfer from +212622222222",
              "Transfer from +212633333333", "Salary payment", "Family transfer">>
      [] type = "TRANSFER_OUT" ->
            <<"Transfer to +212644444444", "Transfer to +212655555555",
              "Payment to merchant", "Bill payment", "Friend transfer">>
      [] type = "BILL_PAYMENT" ->
            <<"Electricity bill", "Water bill", "Internet bill", "Mobile top-up",
              "Insurance payment">>

statuses == <<"COMPLETED", "COMPLETED", "COMPLETED", "COMPLETED", "PENDING">>

\* Math.floor(Math.random() * n)
RandomBelow(seed, i, draw, n) ==
    LET h == ((seed + 1) * 7919 + i * 104729 + draw * 1299709) % 46337
    IN  ((h * h) \div 97) % n

\* x.toFixed(2) read back by parseFloat: 1/1000 MAD rounded to centimes
toFixed2(x) == IF x < 0 THEN -((-x + 5) \div 10) ELSE (x + 5) \div 10

\* the record of iteration i, with the running balance before it
NewTransaction(seed, i, count, balanceBefore) ==
    LET type == transactionTypes[RandomBelow(seed, i, 0, Len(transactionTypes)) + 1]
        isCredit == type = "CASHIN" \/ type = "TRANSFER_IN"
        baseAmount == RandomBelow(seed, i, 1, 1000000) + 50000
        amount == IF isCredit THEN baseAmount ELSE -baseAmount
        descList == descriptions(type)
    IN  [id |-> [prefix |-> "TXN_", digits |-> padStart(StringOf(i + 1), 3, "0")],
         type |-> type,
         amount |-> toFixed2(amount),
         currency |-> "MAD",
         date |-> [daysAgo |-> count - i,
                   hours |-> RandomBelow(seed, i, 2, 24),
                   minutes |-> RandomBelow(seed, i, 3, 60)],
         description |-> descList[RandomBelow(seed, i, 4, Len(descList)) + 1],
         status |-> statuses[RandomBelow(seed, i, 5, Len(statuses)) + 1],
         balanceAfter |-> toFixed2(balanceBefore + amount),
         unrounded |-> balanceBefore + amount]

\* a loop that puts each record at the end of the list
RECURSIVE GenerateFrom_Push(_, _, _, _, _)
GenerateFrom_Push(seed, i, count, currentBalance, list) ==
    IF i >= count THEN list
    ELSE LET tx == NewTransaction(seed, i, count, currentBalance)
         IN  GenerateFrom_Push(seed, i + 1, count, tx.unrounded,
                               Append(list, [f \in DOMAIN tx \ {"unrounded"} |-> tx[f]]))

\* the loop from iteration i on: each record is put in front of the list
RECURSIVE GenerateFrom(_, _, _, _, _)
GenerateFrom(seed, i, count, currentBalance, list) ==
    IF i >= count THEN list
    ELSE LET tx == NewTransaction(seed, i, count, currentBalance)
         IN  GenerateFrom(seed, i + 1, count, tx.unrounded,
                          <<[f \in DOMAIN tx \ {"unrounded"} |-> tx[f]]>> \o list)

generateFakeTransactions(seed, count) == GenerateFrom(seed, 0, count, StartingBalance, <<>>)

(***************************************************************************)
(* The fixture store mockData and the responses.                           *)
(***************************************************************************)
statusMessage(status) ==
    CASE status = 0 -> "Customer not found"
      [] status = 1 -> "Customer not confirmed"
      [] status = 2 -> "Customer confirmed but no PIN"
      [] status = 3 -> "Active customer"
      [] status = 4 -> "Temporarily locked"
      [] status = 5 -> "Permanently locked"

Customer(status) == [status |-> status, message |-> statusMessage(status)]

Registration(firstName, lastName, cin, walletType, registeredAt) ==
    [firstName |-> firstName, lastName |-> lastName, cin |-> cin,
     walletType |-> walletType, registeredAt |-> registeredAt]

initialCustomers ==
    ("+212600000001" :> Customer(0)) @@ ("+212600000002" :> Customer(1)) @@
    ("+212600000003" :> Customer(2)) @@ ("+212600000004" :> Customer(3)) @@
    ("+212600000005" :> Customer(4)) @@ ("+212600000006" :> Customer(5))

initialRegistrations ==
    ("+212600000002" :> Registration("Ahmed", "Ben Ali", "AB123456", "P", "2024-01-15T10:30:00Z")) @@
    ("+212600000003" :> Registration("Fatima", "Zahra", "CD789012", "P", "2024-01-20T14:15:00Z")) @@
    ("+212600000004" :> Registration("Mohammed", "Alami", "EF345678", "P", "2024-01-10T09:45:00Z"))

initialPins == ("+212600000004" :> "1234")

initialBalances ==
    ("+212600000004" :> 324775) @@ ("+212600000003" :> 15000) @@ ("+212600000002" :> 0)

initialTransactions(seed) ==
    ("+212600000004" :> generateFakeTransactions(seed, TxCount)) @@
    ("+212600000003" :> generateFakeTransactions(seed + 1, TxCount)) @@
    ("+212600000002" :> generateFakeTransactions(seed + 2, TxCount))

\* the store as one value, as the handlers see it
mockData ==
    [customers |-> customers, registrations |-> registrations, pins |-> pins,
     balances |-> balances, transactions |-> transactions]

createResponse(data) == [code |-> 200, data |-> data]

createErrorResponse(errorCode, errorDescription) ==
    [code |-> errorCode, errorCode |-> errorCode, errorDescription |-> errorDescription]

\* res.json(createResponse(true, req))
TrueResponse == createResponse([value |-> TRUE])

NoResponse == [code |-> 0]

\* a request: its method and path, its x-api-key header, its body or query
Request(method, path, apiKey, body) ==
    [method |-> method, path |-> path, apiKey |-> apiKey, body |-> body]

\* the value a call of generateFakeTransactions returned, before any call
NotCalled == [called |-> FALSE]

NoRequest == [method |-> "none", path |-> "none"]

\* what a handler does: the response it sends and the store it leaves
Outcome(response, db) == [resp |-> response, db |-> db]

Init ==
    /\ customers = initialCustomers
    /\ registrations = initialRegistrations
    /\ pins = initialPins
    /\ balances = initialBalances
    /\ transactions = initialTransactions(0)
    /\ req = NoRequest
    /\ resp = NoResponse
    /\ served = 0
    /\ generated = NotCalled

(***************************************************************************)
(* The API-key middleware and the handlers that write the store.  Each     *)
(* handler is a function of the store and the request to the response and  *)
(* the store it leaves.                                                    *)
(***************************************************************************)
\* a middleware that checks the key only when a key is sent
validateApiKey_MissingPasses(path, apiKey) ==
    \/ path = "/health"
    \/ apiKey = Missing
    \/ apiKey \in validChariKeys

\* TRUE when the middleware calls next()
validateApiKey(path, apiKey) ==
    \/ path = "/health"
    \/ apiKey # Missing /\ apiKey \in validChariKeys

\* app.use(validateApiKey): `handled` is what the route does once reached
Middleware(path, apiKey, db, handled) ==
    IF validateApiKey(path, apiKey) THEN handled
    ELSE Outcome(createErrorResponse(401, "Invalid or missing Chari API key"), db)

\* GET /health
Health(db) ==
    Outcome([code |-> 200, status |-> "OK", service |-> "Chari API Stub"], db)

\* POST /customers/register
CustomersRegister(db, body) ==
    IF \/ body.phoneNumber = Missing \/ body.firstName = Missing
       \/ body.lastName = Missing \/ body.cin = Missing \/ body.walletType = Missing
    THEN Outcome(createErrorResponse(400, "Missing required fields"), db)
    ELSE Outcome(TrueResponse,
            [db EXCEPT
                !.registrations = Put(@, body.phoneNumber,
                    Registration(body.firstName, body.lastName, body.cin,
                                 body.walletType, "now")),
                !.customers = Put(@, body.phoneNumber, Customer(1))])

\* a confirm that stores status 2 before it looks at the code
CustomersConfirm_WritesFirst(db, body) ==
    IF body.phoneNumber = Missing \/ body.code = Missing \/ body.walletType = Missing
    THEN Outcome(createErrorResponse(400, "Missing required fields"), db)
    ELSE LET confirmed == [db EXCEPT !.customers = Put(@, body.phoneNumber, Customer(2))]
         IN  IF body.code # "123456"
             THEN Outcome(createErrorResponse(400, "Invalid confirmation code"), confirmed)
             ELSE Outcome(TrueResponse, confirmed)

\* POST /customers/confirm
CustomersConfirm(db, body) ==
    IF body.phoneNumber = Missing \/ body.code = Missing \/ body.walletType = Missing
    THEN Outcome(createErrorResponse(400, "Missing required fields"), db)
    ELSE IF body.code # "123456"
    THEN Outcome(createErrorResponse(400, "Invalid confirmation code"), db)
    ELSE Outcome(TrueResponse,
            [db EXCEPT !.customers = Put(@, body.phoneNumber, Customer(2))])

\* a login that compares the pin with the one stored for the phone
CustomersLogin_StoredPin(db, body) ==
    IF body.phoneNumber = Missing \/ body.pin = Missing
    THEN Outcome(createErrorResponse(400, "Phone number and PIN are required"), db)
    ELSE IF \/ body.phoneNumber \notin DOMAIN db.customers
            \/ db.customers[body.phoneNumber].status < 3
    THEN Outcome(createErrorResponse(400, "Customer not found or not activated"), db)
    ELSE LET isCorrectPin == /\ body.phoneNumber \in DOMAIN db.pins
                             /\ body.pin = db.pins[body.phoneNumber]
         IN  Outcome(createResponse([logged |-> isCorrectPin,
                                     remainingAttempts |-> IF isCorrectPin THEN 3 ELSE 2]),
                     db)

\* POST /customers/login
CustomersLogin(db, body) ==
    IF body.phoneNumber = Missing \/ body.pin = Missing
    THEN Outcome(createErrorResponse(400, "Phone number and PIN are required"), db)
    ELSE IF \/ body.phoneNumber \notin DOMAIN db.customers
            \/ db.customers[body.phoneNumber].status < 3
    THEN Outcome(createErrorResponse(400, "Customer not found or not activated"), db)
    ELSE LET isCorrectPin == body.pin = "1234"
         IN  Outcome(createResponse([logged |-> isCorrectPin,
                                     remainingAttempts |-> IF isCorrectPin THEN 3 ELSE 2]),
                     db)

\* a create-PIN that stores the PIN and leaves the status as it is
CreatePin_NoActivation(db, body) ==
    IF body.phoneNumber = Missing \/ body.pin = Missing
    THEN Outcome(createErrorResponse(400, "Phone number and PIN are required"), db)
    ELSE Outcome(TrueResponse, [db EXCEPT !.pins = Put(@, body.phoneNumber, body.pin)])

\* POST /customers/pin
CreatePin(db, body) ==
    IF body.phoneNumber = Missing \/ body.pin = Missing
    THEN Outcome(createErrorResponse(400, "Phone number and PIN are required"), db)
    ELSE Outcome(TrueResponse,
            [db EXCEPT !.pins = Put(@, body.phoneNumber, body.pin),
                       !.customers = Put(@, body.phoneNumber, Customer(3))])

\* PUT /customers/pin
UpdatePin(db, body) ==
    IF body.phoneNumber = Missing \/ body.oldPin = Missing \/ body.newPin = Missing
    THEN Outcome(createErrorResponse(400, "Phone number, old PIN, and new PIN are required"), db)
    ELSE Outcome(TrueResponse, [db EXCEPT !.pins = Put(@, body.phoneNumber, body.newPin)])

\* an unregister that forgets the registration record
CustomersUnregister_KeepsRegistration(db, query) ==
    IF query.phoneNumber = Missing
    THEN Outcome(createErrorResponse(400, "Phone number is required"), db)
    ELSE Outcome(TrueResponse,
            [customers |-> Delete(db.customers, query.phoneNumber),
             registrations |-> db.registrations,
             pins |-> Delete(db.pins, query.phoneNumber),
             balances |-> Delete(db.balances, query.phoneNumber),
             transactions |-> Delete(db.transactions, query.phoneNumber)])

\* DELETE /customers/unregister
CustomersUnregister(db, query) ==
    IF query.phoneNumber = Missing
    THEN Outcome(createErrorResponse(400, "Phone number is required"), db)
    ELSE Outcome(TrueResponse,
            [customers |-> Delete(db.customers, query.phoneNumber),
             registrations |-> Delete(db.registrations, query.phoneNumber),
             pins |-> Delete(db.pins, query.phoneNumber),
             balances |-> Delete(db.balances, query.phoneNumber),
             transactions |-> Delete(db.transactions, query.phoneNumber)])

\* the balance test with its operands exchanged
InsufficientBalance_Exchanged(senderBalance, amount) == amount < senderBalance

\* if (senderBalance < amount)
InsufficientBalance(senderBalance, amount) == senderBalance < amount

\* a transfer that debits the sender and credits nobody
TransferBalances_NoCredit(bals, sender, recipient, amount) ==
    Put(bals, sender, OrDefault(bals, sender, 0) - amount)

\* a transfer that reads both balances before it writes either
TransferBalances_ReadsFirst(bals, sender, recipient, amount) ==
    LET senderBalance == OrDefault(bals, sender, 0)
        recipientBalance == OrDefault(bals, recipient, 0)
    IN  Put(Put(bals, sender, senderBalance - amount), recipient, recipientBalance + amount)

\* the two writes of the transfer: the recipient's balance is read after the
\* sender's has been written
TransferBalances(bals, sender, recipient, amount) ==
    LET senderBalance == OrDefault(bals, sender, 0)
        debited == Put(bals, sender, senderBalance - amount)
        recipientBalance == OrDefault(debited, recipient, 0)
    IN  Put(debited, recipient, recipientBalance + amount)

\* POST /operations/transfer
\* a transfer that also records itself in the sender's transaction list
OperationsTransfer_Recorded(db, body) ==
    IF \/ body.customerPhoneNumber = Missing \/ body.amount = 0
       \/ body.recipientPhoneNumber = Missing
    THEN Outcome(createErrorResponse(400, "Missing required fields"), db)
    ELSE IF \/ body.customerPhoneNumber \notin DOMAIN db.customers
            \/ db.customers[body.customerPhoneNumber].status < 3
    THEN Outcome(createErrorResponse(400, "Sender not found or not activated"), db)
    ELSE IF InsufficientBalance(OrDefault(db.balances, body.customerPhoneNumber, 0),
                                body.amount)
    THEN Outcome(createErrorResponse(400, "Insufficient balance"), db)
    ELSE Outcome(createResponse(
                    [operationType |-> 3,
                     amount |-> body.amount,
                     feesAmount |-> 0,
                     totalAmount |-> body.amount,
                     reason |-> body.reason,
                     recipientPhoneNumber |-> body.recipientPhoneNumber,
                     checkedAt |-> "now"]),
                 [db EXCEPT !.balances =
                                TransferBalances(@, body.customerPhoneNumber,
                                                 body.recipientPhoneNumber, body.amount),
                            !.transactions =
                                Put(@, body.customerPhoneNumber,
                                    <<[type |-> "TRANSFER_OUT", amount |-> -body.amount]>>
                                        \o (IF body.customerPhoneNumber \in DOMAIN @
                                            THEN @[body.customerPhoneNumber] ELSE <<>>))])

\* POST /operations/transfer
OperationsTransfer(db, body) ==
    IF \/ body.customerPhoneNumber = Missing \/ body.amount = 0
       \/ body.recipientPhoneNumber = Missing
    THEN Outcome(createErrorResponse(400, "Missing required fields"), db)
    ELSE IF \/ body.customerPhoneNumber \notin DOMAIN db.customers
            \/ db.customers[body.customerPhoneNumber].status < 3
    THEN Outcome(createErrorResponse(400, "Sender not found or not activated"), db)
    ELSE IF InsufficientBalance(OrDefault(db.balances, body.customerPhoneNumber, 0),
                                body.amount)
    THEN Outcome(createErrorResponse(400, "Insufficient balance"), db)
    ELSE Outcome(createResponse(
                    [operationType |-> 3,
                     amount |-> body.amount,
                     feesAmount |-> 0,
                     totalAmount |-> body.amount,
                     reason |-> body.reason,
                     recipientPhoneNumber |-> body.recipientPhoneNumber,
                     checkedAt |-> "now"]),
                 [db EXCEPT !.balances =
                     TransferBalances(@, body.customerPhoneNumber,
                                      body.recipientPhoneNumber, body.amount)])

(***************************************************************************)
(* The handlers that only read the store.  The id and rib fields, which    *)
(* are text cut out of the phone number, and the timestamps are left out   *)
(* of the responses.                                                       *)
(***************************************************************************)
\* mockData.customers[phoneNumber]?.status || 0
StatusOrZero(db, phoneNumber) ==
    IF phoneNumber \in DOMAIN db.customers THEN db.customers[phoneNumber].status ELSE 0

\* registration?.field, undefined being Missing
RegistrationField(db, phoneNumber, f) ==
    IF phoneNumber \in DOMAIN db.registrations THEN db.registrations[phoneNumber][f]
    ELSE Missing

\* GET /customers/status
CustomersStatus(db, query) ==
    IF query.phoneNumber = Missing
    THEN Outcome(createErrorResponse(400, "Phone number is required"), db)
    ELSE IF \/ query.phoneNumber \notin DOMAIN db.customers
            \/ db.customers[query.phoneNumber].status = 0
    THEN Outcome([code |-> 204], db)
    ELSE Outcome(createResponse(
                    [phoneNumber |-> query.phoneNumber,
                     status |-> db.customers[query.phoneNumber].status,
                     walletType |->
                        IF RegistrationField(db, query.phoneNumber, "walletType") = Missing
                        THEN "P"
                        ELSE RegistrationField(db, query.phoneNumber, "walletType"),
                     balance |-> OrDefault(db.balances, query.phoneNumber, 0),
                     currency |-> "MAD",
                     firstName |-> RegistrationField(db, query.phoneNumber, "firstName"),
                     lastName |-> RegistrationField(db, query.phoneNumber, "lastName"),
                     registeredAt |-> RegistrationField(db, query.phoneNumber, "registeredAt")]),
                 db)

\* GET /customers/balance
CustomersBalance(db, query) ==
    IF query.phoneNumber = Missing
    THEN Outcome(createErrorResponse(400, "Phone number is required"), db)
    ELSE Outcome(createResponse(
                    [balance |-> OrDefault(db.balances, query.phoneNumber, DefaultBalance)]),
                 db)

\* GET /customers/info
CustomersInfo(db, query) ==
    IF query.phoneNumber = Missing
    THEN Outcome(createErrorResponse(400, "Phone number is required"), db)
    ELSE IF query.phoneNumber \notin DOMAIN db.registrations
    THEN Outcome(createErrorResponse(404, "Customer not found"), db)
    ELSE LET registration == db.registrations[query.phoneNumber]
         IN  Outcome(createResponse(
                        [phoneNumber |-> query.phoneNumber,
                         firstName |-> registration.firstName,
                         lastName |-> registration.lastName,
                         cin |-> registration.cin,
                         walletType |-> registration.walletType,
                         status |-> StatusOrZero(db, query.phoneNumber),
                         customer_status |-> StatusOrZero(db, query.phoneNumber),
                         balance |-> OrDefault(db.balances, query.phoneNumber, 0),
                         createdAt |-> registration.registeredAt]),
                     db)

(***************************************************************************)
(* JavaScript arithmetic and Array.prototype.slice for the list endpoints. *)
(* A query parameter is absent or a text; the parameters tried are decimal *)
(* numerals.                                                               *)
(***************************************************************************)
Absent == [given |-> FALSE]

Given(text) == [given |-> TRUE, text |-> text]

\* `const { limit = 10 } = req.query; parseInt(limit)`: the default is used
\* only for an absent parameter
ParsedOrDefault(param, dflt) == IF param.given THEN parseInt(param.text) ELSE dflt

\* `param ? ... : ...` for a parameter whose default is 0: an absent parameter
\* and the empty text are falsy, every other text (also "0") is truthy
Truthy(param) == param.given /\ Len(param.text) > 0

Infinity == "Infinity"

\* Math.ceil(a / b) for a list length a >= 0 and b # 0
CeilDiv(a, b) == IF b > 0 THEN (a + b - 1) \div b ELSE -(a \div (-b))

\* Math.floor(a / b) for b # 0
FloorDiv(a, b) == IF b > 0 THEN a \div b ELSE (-a) \div (-b)

\* a / 0, which Math.ceil, Math.floor and + 1 leave as it is
DivByZero(a) == IF a = 0 THEN NaN ELSE IF a > 0 THEN Infinity ELSE "-Infinity"

\* list.slice(start, end): a negative index counts from the end of the list
slice(list, start, end) ==
    LET len == Len(list)
        from == IF start < 0 THEN Max(len + start, 0) ELSE Min(start, len)
        to == IF end < 0 THEN Max(len + end, 0) ELSE Min(end, len)
    IN  SubSeq(list, from + 1, to)

\* mockData.transactions[phoneNumber] || []
TransactionsOf(db, phoneNumber) ==
    IF phoneNumber \in DOMAIN db.transactions THEN db.transactions[phoneNumber] ELSE <<>>

\* a start index that numbers the pages from 0
StartIndex_PagesFromZero(offset, pageNumber, pageSize) ==
    IF Truthy(offset) THEN parseInt(offset.text) ELSE pageNumber * pageSize

\* const startIndex = offset ? parseInt(offset) : (pageNumber - 1) * pageSize
StartIndex(offset, pageNumber, pageSize) ==
    IF Truthy(offset) THEN parseInt(offset.text) ELSE (pageNumber - 1) * pageSize

\* GET /customers/transactions
CustomersTransactions(db, query) ==
    IF query.phoneNumber = Missing
    THEN Outcome(createErrorResponse(400, "Phone number is required"), db)
    ELSE LET list == TransactionsOf(db, query.phoneNumber)
             pageSize == ParsedOrDefault(query.limit, DefaultLimit)
             pageNumber == ParsedOrDefault(query.page, DefaultPage)
             startIndex == StartIndex(query.offset, pageNumber, pageSize)
             endIndex == startIndex + pageSize
         IN  Outcome(createResponse(
                        [transactions |-> slice(list, startIndex, endIndex),
                         total |-> Len(list),
                         limit |-> pageSize,
                         offset |-> startIndex,
                         page |-> IF pageSize = 0 THEN DivByZero(startIndex)
                                  ELSE FloorDiv(startIndex, pageSize) + 1,
                         totalPages |-> IF pageSize = 0 THEN DivByZero(Len(list))
                                        ELSE CeilDiv(Len(list), pageSize),
                         hasMore |-> endIndex < Len(list),
                         hasPrevious |-> startIndex > 0]),
                     db)

(***************************************************************************)
(* The operation view of a transaction.                                    *)
(***************************************************************************)
Null == "null"

\* a type map without the BILL_PAYMENT line
getOperationType_NoBillPayment(transactionType) ==
    CASE transactionType = "CASHIN" -> 1
      [] transactionType = "CASHOUT" -> 2
      [] transactionType = "TRANSFER_IN" -> 3
      [] transactionType = "TRANSFER_OUT" -> 3
      [] OTHER -> 0

\* typeMap[transactionType] || 0
getOperationType(transactionType) ==
    CASE transactionType = "CASHIN" -> 1
      [] transactionType = "CASHOUT" -> 2
      [] transactionType = "TRANSFER_IN" -> 3
      [] transactionType = "TRANSFER_OUT" -> 3
      [] transactionType = "BILL_PAYMENT" -> 4
      [] OTHER -> 0

getTransactionStatus(status) == IF status = "COMPLETED" THEN 2 ELSE 1

\* description.match(/\+212\d{9}/): the first phone-shaped part of each
\* description the generator writes and of one with two phones, Null when
\* there is none
phoneMatch(description) ==
    CASE description = "Transfer from +212611111111" -> "+212611111111"
      [] description = "Transfer from +212622222222" -> "+212622222222"
      [] description = "Transfer from +212633333333" -> "+212633333333"
      [] description = "Transfer to +212644444444" -> "+212644444444"
      [] description = "Transfer to +212655555555" -> "+212655555555"
      [] description = "From +212611111111 for +212644444444" -> "+212611111111"
      [] OTHER -> Null

\* an extraction that reads an incoming transfer as an outgoing one
extractPhoneNumbers_InAsOut(tx, customerPhone) ==
    CASE tx.type = "TRANSFER_OUT" \/ tx.type = "TRANSFER_IN" ->
            [sender |-> customerPhone, receiver |-> phoneMatch(tx.description),
             beneficiary |-> tx.description]
      [] tx.type = "CASHIN" ->
            [sender |-> customerPhone, receiver |-> customerPhone, beneficiary |-> Null]
      [] tx.type = "CASHOUT" ->
            [sender |-> customerPhone, receiver |-> customerPhone, beneficiary |-> Null]
      [] OTHER ->
            [sender |-> customerPhone, receiver |-> Null, beneficiary |-> Null]

extractPhoneNumbers(tx, customerPhone) ==
    CASE tx.type = "TRANSFER_OUT" ->
            [sender |-> customerPhone, receiver |-> phoneMatch(tx.description),
             beneficiary |-> tx.description]
      [] tx.type = "TRANSFER_IN" ->
            [sender |-> phoneMatch(tx.description), receiver |-> customerPhone,
             beneficiary |-> tx.description]
      [] tx.type = "CASHIN" ->
            [sender |-> customerPhone, receiver |-> customerPhone, beneficiary |-> Null]
      [] tx.type = "CASHOUT" ->
            [sender |-> customerPhone, receiver |-> customerPhone, beneficiary |-> Null]
      [] OTHER ->
            [sender |-> customerPhone, receiver |-> Null, beneficiary |-> Null]

\* T{opType}{opType}-{YYMMDD}{HH}-{txId}: the day and the hour are those of
\* tx.date, the id is the text after TXN_
generateTransactionReference(tx, operationType) ==
    LET opTypeStr == padStart(StringOf(operationType), 2, "0")
    IN  [prefix |-> <<"T">> \o opTypeStr \o opTypeStr,
         day |-> tx.date.daysAgo,
         hour |-> padStart(StringOf(tx.date.hours), 2, "0"),
         txId |-> tx.id.digits]

\* a reason that is always null
OrNull_Dropped(text) == Null

\* text || null
OrNull(text) == IF text = "" THEN Null ELSE text

transactionToOperation(tx, phoneNumber, operationId) ==
    LET opType == getOperationType(tx.type)
        amount == Abs(tx.amount)
        parties == extractPhoneNumbers(tx, phoneNumber)
    IN  [operationId |-> operationId,
         transactionId |-> parseInt(tx.id.digits),
         transactionReference |-> generateTransactionReference(tx, opType),
         amount |-> amount,
         reason |-> OrNull(tx.description),
         operationType |-> opType,
         transactionDate |-> tx.date,
         sens |-> IF tx.amount > 0 THEN 1 ELSE 2,
         transactionStatus |-> getTransactionStatus(tx.status),
         feesAmount |-> 0,
         totalAmount |-> amount,
         transactionFeesId |-> Null,
         sender |-> parties.sender,
         receiver |-> parties.receiver,
         beneficiary |-> parties.beneficiary,
         accountNumber |-> phoneNumber,
         beneficiaryName |-> IF parties.beneficiary = Null THEN "" ELSE parties.beneficiary,
         currency |-> IF tx.currency = "" THEN "MAD" ELSE tx.currency,
         balanceAfter |-> tx.balanceAfter]

\* s.toUpperCase() for the status texts tried
toUpperCase(s) ==
    CASE s = "completed" -> "COMPLETED"
      [] s = "Pending" -> "PENDING"
      [] OTHER -> s

\* filters that leave the operation type out
FilteredTransactions_TypeIgnored(list, operationType, transactionStatus) ==
    IF transactionStatus = Missing THEN list
    ELSE LET sameStatus(t) == toUpperCase(t.status) = toUpperCase(transactionStatus)
         IN  SelectSeq(list, sameStatus)

\* the two optional filters of GET /operations (list.filter); operationType is
\* one text
FilteredTransactions(list, operationType, transactionStatus) ==
    LET byType == IF operationType = Missing THEN list
                  ELSE LET sameType(t) == t.type = operationType
                       IN  SelectSeq(list, sameType)
    IN  IF transactionStatus = Missing THEN byType
        ELSE LET sameStatus(t) == toUpperCase(t.status) = toUpperCase(transactionStatus)
             IN  SelectSeq(byType, sameStatus)

\* GET /operations
GetOperations(db, query) ==
    IF query.phoneNumber = Missing
    THEN Outcome(createErrorResponse(400, "Phone number is required"), db)
    ELSE LET list == FilteredTransactions(TransactionsOf(db, query.phoneNumber),
                                          query.operationType, query.transactionStatus)
             pageSizeInt == ParsedOrDefault(query.pageSize, DefaultLimit)
             pageNumberInt == ParsedOrDefault(query.pageNumber, DefaultPage)
             totalRecords == Len(list)
             startIndex == (pageNumberInt - 1) * pageSizeInt
             endIndex == startIndex + pageSizeInt
             paginated == slice(list, startIndex, endIndex)
             operations == [index \in 1..Len(paginated) |->
                               transactionToOperation(paginated[index], query.phoneNumber,
                                                      startIndex + index)]
         IN  Outcome(createResponse(
                        [collection |-> operations,
                         count |-> Len(operations),
                         total |-> totalRecords,
                         pageNumber |-> pageNumberInt,
                         pageSize |-> pageSizeInt,
                         totalPages |-> IF pageSizeInt = 0 THEN DivByZero(totalRecords)
                                        ELSE CeilDiv(totalRecords, pageSizeInt),
                         hasMore |-> endIndex < totalRecords,
                         hasPrevious |-> pageNumberInt > 1]),
                     db)

\* parseInt(s) is NaN: s has no digit after its optional sign
ParsesToNaN(s) ==
    LET first == IF Len(s) > 0 /\ s[1] \in {"-", "+"} THEN 2 ELSE 1
    IN  DigitPrefix(s, first, 0).upto < first

\* a lookup that tries the position in the list before the transaction id
FindOperation_PositionFirst(list, opIdInt) ==
    IF opIdInt > 0 /\ opIdInt <= Len(list) THEN <<list[opIdInt]>>
    ELSE LET byId == {i \in 1..Len(list) : parseInt(list[i].id.digits) = opIdInt}
         IN  IF byId # {} THEN <<list[CHOOSE i \in byId : \A j \in byId : i <= j]>>
             ELSE <<>>

\* transactions.find by numeric id, then the 1-based position; the result is
\* <<transaction>>, or <<>> when the transaction is undefined
FindOperation(list, opIdInt) ==
    LET byId == {i \in 1..Len(list) : parseInt(list[i].id.digits) = opIdInt}
    IN  IF byId # {} THEN <<list[CHOOSE i \in byId : \A j \in byId : i <= j]>>
        ELSE IF opIdInt > 0 /\ opIdInt <= Len(list) THEN <<list[opIdInt]>>
        ELSE <<>>

\* GET /operations/:operationId; params.operationId is the text of the path
\* segment.  With a NaN id no comparison of the lookup is true.
GetOperation(db, query, params) ==
    IF query.phoneNumber = Missing
    THEN Outcome(createErrorResponse(400, "Phone number is required"), db)
    ELSE LET list == TransactionsOf(db, query.phoneNumber)
             found == IF ParsesToNaN(params.operationId) THEN <<>>
                      ELSE FindOperation(list, parseInt(params.operationId))
         IN  IF found = <<>>
             THEN Outcome(createErrorResponse(404, "Operation not found"), db)
             ELSE Outcome(createResponse(
                            transactionToOperation(found[1], query.phoneNumber,
                                                   parseInt(params.operationId))),
                          db)

(***************************************************************************)
(* The requests tried.  A request is a pair of its x-api-key header and    *)
(* its body or query.                                                      *)
(***************************************************************************)
ReqPhones == {"+212600000003", "+212600000004", "+212600000005", FreshPhone}

GoodKey == "aslan_internal_key_123"

BadKeys == {"not-a-chari-key", Missing}

PinValues == {"1234", "0000"}

CodeValues == {"123456", "1234"}

Amounts == {-20000, 10000, 400000}

\* body b with one of its fields left out, for each field
OneMissing(b) == {[b EXCEPT ![f] = Missing] : f \in DOMAIN b}

SamplePhone(P) == CHOOSE p \in P : TRUE

RegisterBody(phoneNumber) ==
    [phoneNumber |-> phoneNumber, firstName |-> "Ahmed", lastName |-> "Benali",
     cin |-> "AB123456", walletType |-> "P"]

RegisterBodies(P) ==
    {RegisterBody(p) : p \in P} \cup OneMissing(RegisterBody(SamplePhone(P)))

ConfirmBody(phoneNumber, code) ==
    [phoneNumber |-> phoneNumber, code |-> code, walletType |-> "P"]

ConfirmBodies(P) ==
    {ConfirmBody(p, c) : p \in P, c \in CodeValues}
        \cup OneMissing(ConfirmBody(SamplePhone(P), "123456"))

PinBody(phoneNumber, pin) == [phoneNumber |-> phoneNumber, pin |-> pin]

PinBodies(P) ==
    {PinBody(p, n) : p \in P, n \in PinValues} \cup OneMissing(PinBody(SamplePhone(P), "1234"))

UpdatePinBody(phoneNumber, newPin) ==
    [phoneNumber |-> phoneNumber, oldPin |-> "1234", newPin |-> newPin]

UpdatePinBodies(P) ==
    {UpdatePinBody(p, n) : p \in P, n \in PinValues}
        \cup OneMissing(UpdatePinBody(SamplePhone(P), "0000"))

PhoneQueries(P) == [phoneNumber : P \cup {Missing}]

TransferBody(sender, amount, recipient) ==
    [customerPhoneNumber |-> sender, amount |-> amount,
     reason |-> IF amount = 10000 THEN Missing ELSE "gift",
     recipientPhoneNumber |-> recipient]

\* an absent amount and the amount 0 are the same to the handler
TransferBodies(P) ==
    {TransferBody(s, a, r) : s \in P, a \in Amounts, r \in P}
        \cup {TransferBody(Missing, 10000, SamplePhone(P)),
              TransferBody(SamplePhone(P), 0, SamplePhone(P)),
              TransferBody(SamplePhone(P), 10000, Missing)}

\* the numerals of the integers from lo to hi, and the absent parameter
NumeralParams(lo, hi) == {Absent} \cup {Given(StringOf(n)) : n \in lo..hi}

ListPhones == {"+212600000004", FreshPhone}

TransactionQueries(P) ==
    [phoneNumber : P, limit : NumeralParams(0, MaxPageSize),
     offset : NumeralParams(-MaxPageSize, MaxOffset),
     page : NumeralParams(1 - MaxPage, MaxPage)]
        \cup {[phoneNumber |-> Missing, limit |-> Absent, offset |-> Absent, page |-> Absent]}

OperationQueries(P) ==
    [phoneNumber : P, operationType : {Missing, "CASHIN", "TRANSFER_OUT"},
     transactionStatus : {Missing, "completed", "PENDING"},
     pageSize : NumeralParams(0, MaxPageSize),
     pageNumber : NumeralParams(1 - MaxPage, MaxPage)]
        \cup {[phoneNumber |-> Missing, operationType |-> Missing,
               transactionStatus |-> Missing, pageSize |-> Absent, pageNumber |-> Absent]}

\* the path segments tried as operation id: every numeral around the ids and
\* positions of a list, and a text that is no numeral
OperationIds == {StringOf(n) : n \in -1..(TxCount + 2)} \cup {<<"x">>}

SampleOperationIds == {<<"5">>, <<"0">>}

OperationByIdQueries(P, ids) ==
    [phoneNumber : P, operationId : ids]
        \cup {[phoneNumber |-> Missing, operationId |-> <<"5">>]}

\* every body with the good key, one body with each bad key
Keyed(bodies) ==
    {<<GoodKey, b>> : b \in bodies} \cup {<<k, CHOOSE b \in bodies : TRUE>> : k \in BadKeys}

(***************************************************************************)
(* The actions: one request is received, passes the middleware and is      *)
(* handled to completion (requests are handled one at a time).             *)
(***************************************************************************)
Serve(max, request, o) ==
    /\ served < max
    /\ served' = served + 1
    /\ req' = request
    /\ resp' = o.resp
    /\ customers' = o.db.customers
    /\ registrations' = o.db.registrations
    /\ pins' = o.db.pins
    /\ balances' = o.db.balances
    /\ transactions' = o.db.transactions
    /\ generated' = generated

GetHealth(P, max) ==
    \E apiKey \in {GoodKey} \cup BadKeys :
        Serve(max, Request("GET", "/health", apiKey, [none |-> Missing]),
                  Middleware("/health", apiKey, mockData, Health(mockData)))

PostRegister(P, max) ==
    \E rq \in Keyed(RegisterBodies(P)) :
        LET apiKey == rq[1]
            body == rq[2]
        IN  Serve(max, Request("POST", "/customers/register", apiKey, body),
                  Middleware("/customers/register", apiKey, mockData,
                              CustomersRegister(mockData, body)))

PostConfirm(P, max) ==
    \E rq \in Keyed(ConfirmBodies(P)) :
        LET apiKey == rq[1]
            body == rq[2]
        IN  Serve(max, Request("POST", "/customers/confirm", apiKey, body),
                  Middleware("/customers/confirm", apiKey, mockData,
                              CustomersConfirm(mockData, body)))

PostLogin(P, max) ==
    \E rq \in Keyed(PinBodies(P)) :
        LET apiKey == rq[1]
            body == rq[2]
        IN  Serve(max, Request("POST", "/customers/login", apiKey, body),
                  Middleware("/customers/login", apiKey, mockData,
                              CustomersLogin(mockData, body)))

PostPin(P, max) ==
    \E rq \in Keyed(PinBodies(P)) :
        LET apiKey == rq[1]
            body == rq[2]
        IN  Serve(max, Request("POST", "/customers/pin", apiKey, body),
                  Middleware("/customers/pin", apiKey, mockData,
                              CreatePin(mockData, body)))

PutPin(P, max) ==
    \E rq \in Keyed(UpdatePinBodies(P)) :
        LET apiKey == rq[1]
            body == rq[2]
        IN  Serve(max, Request("PUT", "/customers/pin", apiKey, body),
                  Middleware("/customers/pin", apiKey, mockData,
                              UpdatePin(mockData, body)))

DeleteUnregister(P, max) ==
    \E rq \in Keyed(PhoneQueries(P)) :
        LET apiKey == rq[1]
            query == rq[2]
        IN  Serve(max, Request("DELETE", "/customers/unregister", apiKey, query),
                  Middleware("/customers/unregister", apiKey, mockData,
                              CustomersUnregister(mockData, query)))

PostTransfer(P, max) ==
    \E rq \in Keyed(TransferBodies(P)) :
        LET apiKey == rq[1]
            body == rq[2]
        IN  Serve(max, Request("POST", "/operations/transfer", apiKey, body),
                  Middleware("/operations/transfer", apiKey, mockData,
                              OperationsTransfer(mockData, body)))

GetStatus(P, max) ==
    \E rq \in Keyed(PhoneQueries(P)) :
        LET apiKey == rq[1]
            query == rq[2]
        IN  Serve(max, Request("GET", "/customers/status", apiKey, query),
                  Middleware("/customers/status", apiKey, mockData,
                              CustomersStatus(mockData, query)))

GetBalance(P, max) ==
    \E rq \in Keyed(PhoneQueries(P)) :
        LET apiKey == rq[1]
            query == rq[2]
        IN  Serve(max, Request("GET", "/customers/balance", apiKey, query),
                  Middleware("/customers/balance", apiKey, mockData,
                              CustomersBalance(mockData, query)))

GetInfo(P, max) ==
    \E rq \in Keyed(PhoneQueries(P)) :
        LET apiKey == rq[1]
            query == rq[2]
        IN  Serve(max, Request("GET", "/customers/info", apiKey, query),
                  Middleware("/customers/info", apiKey, mockData,
                              CustomersInfo(mockData, query)))

GetOperationById(P, ids, max) ==
    \E rq \in Keyed(OperationByIdQueries(P, ids)) :
        LET apiKey == rq[1]
            query == rq[2]
        IN  Serve(max, Request("GET", "/operations/:operationId", apiKey, query),
                  Middleware("/operations/:operationId", apiKey, mockData,
                             GetOperation(mockData, [phoneNumber |-> query.phoneNumber],
                                          [operationId |-> query.operationId])))

\* the requests that read one customer
ReadRequest(P, max) ==
    \/ GetStatus(P, max)
    \/ GetBalance(P, max)
    \/ GetInfo(P, max)
    \/ GetOperationById(P, SampleOperationIds, max)

GetTransactions(P, max) ==
    \E rq \in Keyed(TransactionQueries(P)) :
        LET apiKey == rq[1]
            query == rq[2]
        IN  Serve(max, Request("GET", "/customers/transactions", apiKey, query),
                  Middleware("/customers/transactions", apiKey, mockData,
                             CustomersTransactions(mockData, query)))

GetOperationsList(P, max) ==
    \E rq \in Keyed(OperationQueries(P)) :
        LET apiKey == rq[1]
            query == rq[2]
        IN  Serve(max, Request("GET", "/operations", apiKey, query),
                  Middleware("/operations", apiKey, mockData,
                             GetOperations(mockData, query)))

StoreRequest(P, max) ==
    \/ GetHealth(P, max)
    \/ PostRegister(P, max)
    \/ PostConfirm(P, max)
    \/ PostLogin(P, max)
    \/ PostPin(P, max)
    \/ PutPin(P, max)
    \/ DeleteUnregister(P, max)
    \/ PostTransfer(P, max)

Next ==
    \/ StoreRequest(ReqPhones, MaxRequests)
    \/ ReadRequest(Phones, MaxRequests)

Spec == Init /\ [][Next]_vars

\* one customer's life: every request about the phone that starts with no record
LifecycleNext ==
    \/ StoreRequest({FreshPhone}, MaxLifecycle)
    \/ ReadRequest({FreshPhone}, MaxLifecycle)

LifecycleSpec == Init /\ [][LifecycleNext]_vars

\* The list endpoints.  A list request leaves the store as it is, so the
\* requests that follow it see what it saw: a run ends with its first list
\* request, and the lists differ by the unregister requests before it.
ListNext ==
    \/ req.method # "GET" /\ GetTransactions(ListPhones, MaxRequests)
    \/ req.method # "GET" /\ GetOperationsList(ListPhones, MaxRequests)
    \/ req.method # "GET" /\ GetOperationById(ListPhones, OperationIds, MaxRequests)
    \/ req.method # "GET" /\ DeleteUnregister(ListPhones, MaxRequests)

ListInit ==
    /\ customers = initialCustomers
    /\ registrations = initialRegistrations
    /\ pins = initialPins
    /\ balances = initialBalances
    /\ \E seed \in 0..(NumSeeds - 1) : transactions = initialTransactions(seed)
    /\ req = NoRequest
    /\ resp = NoResponse
    /\ served = 0
    /\ generated = NotCalled

ListSpec == ListInit /\ [][ListNext]_vars

\* The generator on its own: one call of generateFakeTransactions(count) with
\* the random source of one seed.
CallGenerate ==
    \E seed \in 0..MaxSeed, count \in 0..MaxCount :
        /\ ~generated.called
        /\ generated' = [called |-> TRUE, count |-> count,
                         list |-> generateFakeTransactions(seed, count)]
        /\ UNCHANGED <<customers, registrations, pins, balances, transactions,
                       req, resp, served>>

GeneratorNext == CallGenerate

GeneratorSpec == Init /\ [][GeneratorNext]_vars

(***************************************************************************)
(* The claims.                                                             *)
(***************************************************************************)
StoreUnchanged ==
    /\ customers' = customers
    /\ registrations' = registrations
    /\ pins' = pins
    /\ balances' = balances
    /\ transactions' = transactions

\* the balance stored for a phone, a phone without one counting as 0
StoredBalance(bals, phoneNumber) ==
    IF phoneNumber \in DOMAIN bals THEN bals[phoneNumber] ELSE 0

InsufficientBalanceResponse == createErrorResponse(400, "Insufficient balance")

UnauthorizedResponse == createErrorResponse(401, "Invalid or missing Chari API key")

\* the step handles a transfer request that passes the middleware, has its
\* three required fields and names a sender whose status is 3 or more
TransferByActivatedSender ==
    /\ req'.path = "/operations/transfer"
    /\ req'.apiKey \in validChariKeys
    /\ req'.body.customerPhoneNumber # Missing
    /\ req'.body.recipientPhoneNumber # Missing
    /\ req'.body.amount # 0
    /\ req'.body.customerPhoneNumber \in DOMAIN customers
    /\ customers[req'.body.customerPhoneNumber].status >= 3

\* C1: a transfer request of an activated sender whose stored balance is
\* smaller than the amount is answered 400 'Insufficient balance' and leaves
\* every balance as it was.
C1_InsufficientBalanceRejected ==
    [][(/\ TransferByActivatedSender
        /\ StoredBalance(balances, req'.body.customerPhoneNumber) < req'.body.amount)
       => (resp' = InsufficientBalanceResponse /\ balances' = balances)]_vars

C1_Witness ==
    /\ req.method = "POST" /\ req.path = "/operations/transfer"
    /\ req.body.customerPhoneNumber = "+212600000004"
    /\ customers["+212600000004"].status = 3
    /\ balances["+212600000004"] = 324775
    /\ req.body.amount = 400000
    /\ resp = InsufficientBalanceResponse

\* C2: a transfer of amount a from an activated sender with balance b >= a to
\* another phone with balance r (0 when none is stored) leaves the sender with
\* b - a and the recipient with r + a, and the response echoes amount = a,
\* totalAmount = a and feesAmount = 0.
C2_TransferMovesAmount ==
    [][(/\ TransferByActivatedSender
        /\ StoredBalance(balances, req'.body.customerPhoneNumber) >= req'.body.amount
        /\ req'.body.recipientPhoneNumber # req'.body.customerPhoneNumber)
       => LET sender == req'.body.customerPhoneNumber
              recipient == req'.body.recipientPhoneNumber
              a == req'.body.amount
          IN  /\ sender \in DOMAIN balances' /\ recipient \in DOMAIN balances'
              /\ balances'[sender] = StoredBalance(balances, sender) - a
              /\ balances'[recipient] = StoredBalance(balances, recipient) + a
              /\ resp'.code = 200
              /\ resp'.data.amount = a
              /\ resp'.data.totalAmount = a
              /\ resp'.data.feesAmount = 0]_vars

C2_Witness ==
    /\ req.method = "POST" /\ req.path = "/operations/transfer"
    /\ req.body.customerPhoneNumber = "+212600000004"
    /\ req.body.recipientPhoneNumber = FreshPhone
    /\ req.body.amount = 10000
    /\ resp.code = 200 /\ resp.data.amount = 10000 /\ resp.data.feesAmount = 0
    /\ balances["+212600000004"] = 314775
    /\ FreshPhone \in DOMAIN balances /\ balances[FreshPhone] = 10000

\* C3: under register, confirm, create-PIN, update-PIN, login and transfer
\* requests the stored status of a phone never decreases.
C3_StatusNeverDecreases ==
    [][req'.path \in {"/customers/register", "/customers/confirm", "/customers/pin",
                      "/customers/login", "/operations/transfer"}
       => \A p \in DOMAIN customers :
            p \in DOMAIN customers' /\ customers'[p].status >= customers[p].status]_vars

C5_BalancesNonNegative == \A p \in DOMAIN balances : balances[p] >= 0

\* C6: GET /customers/status answers 204 with no body for a phone whose
\* record is absent or has status 0, and no successful GET /customers/status
\* or GET /customers/info response carries status (or customer_status) 0.
C6_StatusZeroNeverShown ==
    \A p \in Phones :
        LET status == CustomersStatus(mockData, [phoneNumber |-> p]).resp
            info == CustomersInfo(mockData, [phoneNumber |-> p]).resp
        IN  /\ (p \notin DOMAIN customers \/ customers[p].status = 0)
                    => status = [code |-> 204]
            /\ status.code = 200 => status.data.status # 0
            /\ info.code = 200 => (info.data.status # 0 /\ info.data.customer_status # 0)

C6_Witness ==
    /\ req.method = "GET" /\ req.path = "/customers/status"
    /\ req.apiKey = GoodKey
    /\ req.body.phoneNumber = "+212600000001"
    /\ customers["+212600000001"].status = 0
    /\ resp = [code |-> 204]

\* C7: a request to a path other than /health whose x-api-key is missing or
\* not in the allow-list is answered 401 with {errorCode, errorDescription}
\* and leaves the store unchanged; a request to /health is served without a
\* key.
C7_ApiKeyRequired ==
    [][/\ (req'.path # "/health" /\ (req'.apiKey = Missing \/ req'.apiKey \notin validChariKeys))
            => (resp' = UnauthorizedResponse /\ StoreUnchanged)
       /\ req'.path = "/health"
            => (resp'.code = 200 /\ resp'.status = "OK" /\ StoreUnchanged)]_vars

C7_Witness ==
    /\ req.method = "DELETE" /\ req.path = "/customers/unregister"
    /\ req.apiKey = Missing
    /\ resp = UnauthorizedResponse
    /\ DOMAIN resp = {"code", "errorCode", "errorDescription"}
    /\ customers = initialCustomers /\ transactions = initialTransactions(0)

\* the items of list at the positions i (counted from 0) with
\* start <= i < start + pageSize and 0 <= i < Len(list), in list order
ClippedRange(list, start, pageSize) ==
    SubSeq(list, Max(start, 0) + 1, Min(start + pageSize, Len(list)))

\* the least n with n * pageSize >= total, for pageSize > 0
PagesNeeded(total, pageSize) ==
    CHOOSE n \in 0..total : n * pageSize >= total /\ (n = 0 \/ (n - 1) * pageSize < total)

TransactionsAnswered ==
    req.path = "/customers/transactions" /\ resp.code = 200

OperationsAnswered ==
    req.path = "/operations" /\ resp.code = 200

\* the start index the last transactions request asks for: its offset when
\* it has one, (page - 1) * limit otherwise, page and limit defaulting to 1
\* and 10
RequestedStart ==
    IF Truthy(req.body.offset) THEN parseInt(req.body.offset.text)
    ELSE ((IF req.body.page.given THEN parseInt(req.body.page.text) ELSE 1) - 1)
            * (IF req.body.limit.given THEN parseInt(req.body.limit.text) ELSE 10)

\* the list the operations endpoint pages for the last request
RequestedOperations ==
    FilteredTransactions(TransactionsOf(mockData, req.body.phoneNumber),
                         req.body.operationType, req.body.transactionStatus)

\* C8: for every start index and page size > 0 a list endpoint computes from
\* its parameters, the returned slice is the items at the positions i with
\* start <= i < start + pageSize and 0 <= i < total, in list order; a start
\* outside the list gives an empty slice.
C8_SliceIsClippedRange ==
    /\ (TransactionsAnswered /\ resp.data.limit > 0)
        => resp.data.transactions =
                ClippedRange(TransactionsOf(mockData, req.body.phoneNumber),
                             RequestedStart, resp.data.limit)
    /\ (OperationsAnswered /\ resp.data.pageSize > 0)
        => LET start == (resp.data.pageNumber - 1) * resp.data.pageSize
               expected == ClippedRange(RequestedOperations, start, resp.data.pageSize)
           IN  resp.data.collection =
                    [i \in 1..Len(expected) |->
                        transactionToOperation(expected[i], req.body.phoneNumber, start + i)]

\* C9: on /customers/transactions a request addressed by offset and a request
\* addressed by page with offset = (page - 1) * limit get the same slice and
\* the same pagination metadata.
C9_OffsetAndPageAgree ==
    (TransactionsAnswered /\ Truthy(req.body.offset))
        => \A page \in (1 - MaxPage)..MaxPage :
              parseInt(req.body.offset.text) = (page - 1) * resp.data.limit
                => CustomersTransactions(mockData,
                        [req.body EXCEPT !.offset = Absent,
                                         !.page = Given(StringOf(page))]).resp = resp

C9_Witness ==
    /\ TransactionsAnswered
    /\ req.body.phoneNumber = "+212600000004"
    /\ req.body.offset = Given(<<"2", "0">>)
    /\ req.body.limit = Given(<<"1", "0">>)
    /\ req.body.page = Absent
    /\ resp.data.page = 3
    /\ Len(resp.data.transactions) = 5
    /\ resp.data.hasPrevious /\ ~resp.data.hasMore

\* the position, counted from 0, of the first item a page returns, and the
\* start index the endpoint computed when the page returns nothing
FirstReturnedPosition(ids, returnedIds, computedStart) ==
    IF returnedIds = <<>> THEN computedStart
    ELSE CHOOSE i \in 0..(Len(ids) - 1) : ids[i + 1] = returnedIds[1]

\* C10: for every list request with page size > 0, totalPages is
\* ceil(total / pageSize), hasMore is (start + pageSize < total) and
\* hasPrevious is (start > 0), start being the index of the first returned
\* position; page 2 with limit 10 on 25 items returns items 11 to 20 with
\* hasMore, hasPrevious and totalPages = 3.
C10_PaginationMetadata ==
    /\ (TransactionsAnswered /\ resp.data.limit > 0)
        => LET list == TransactionsOf(mockData, req.body.phoneNumber)
               pageSize == resp.data.limit
               start == FirstReturnedPosition(
                            [i \in 1..Len(list) |-> list[i].id],
                            [i \in 1..Len(resp.data.transactions) |->
                                resp.data.transactions[i].id],
                            RequestedStart)
           IN  /\ resp.data.total = Len(list)
               /\ resp.data.totalPages = PagesNeeded(Len(list), pageSize)
               /\ resp.data.hasMore = (start + pageSize < Len(list))
               /\ resp.data.hasPrevious = (start > 0)
               /\ (Len(list) = 25 /\ pageSize = 10 /\ RequestedStart = 10)
                    => /\ resp.data.transactions = SubSeq(list, 11, 20)
                       /\ resp.data.page = 2
                       /\ resp.data.hasMore /\ resp.data.hasPrevious
                       /\ resp.data.totalPages = 3
    /\ (OperationsAnswered /\ resp.data.pageSize > 0)
        => LET list == RequestedOperations
               pageSize == resp.data.pageSize
               start == FirstReturnedPosition(
                            [i \in 1..Len(list) |-> parseInt(list[i].id.digits)],
                            [i \in 1..Len(resp.data.collection) |->
                                resp.data.collection[i].transactionId],
                            (resp.data.pageNumber - 1) * pageSize)
           IN  /\ resp.data.total = Len(list)
               /\ resp.data.totalPages = PagesNeeded(Len(list), pageSize)
               /\ resp.data.hasMore = (start + pageSize < Len(list))
               /\ resp.data.hasPrevious = (start > 0)
               /\ (Len(list) = 25 /\ pageSize = 10 /\ resp.data.pageNumber = 2)
                    => /\ resp.data.count = 10
                       /\ \A i \in 1..10 :
                            resp.data.collection[i].transactionId
                                = parseInt(list[10 + i].id.digits)
                       /\ resp.data.hasMore /\ resp.data.hasPrevious
                       /\ resp.data.totalPages = 3

\* C11: a list request whose page size (limit, pageSize) is 0 is treated as
\* an error: it gets no successful paginated response.
C11_ZeroPageSizeIsError ==
    /\ TransactionsAnswered => resp.data.limit # 0
    /\ OperationsAnswered => resp.data.pageSize # 0

\* the spellings of a status word that differ by letter case only
StatusSpellings ==
    {{"COMPLETED", "completed", "Completed"}, {"PENDING", "pending", "Pending"}}

SameIgnoringCase(a, b) == a = b \/ \E word \in StatusSpellings : a \in word /\ b \in word

\* the record passes the filters the request supplies
PassesFilters(tx, operationType, transactionStatus) ==
    /\ operationType = Missing \/ tx.type = operationType
    /\ transactionStatus = Missing \/ SameIgnoringCase(tx.status, transactionStatus)

\* C12: on GET /operations the filters are applied to the whole list before
\* pagination: total is the number of records that pass the supplied filters,
\* totalPages and hasMore are computed from that number, every record on the
\* page passes the filters, and the status filter ignores letter case.
C12_FiltersBeforePagination ==
    OperationsAnswered
        => LET full == TransactionsOf(mockData, req.body.phoneNumber)
               passing == {i \in 1..Len(full) :
                              PassesFilters(full[i], req.body.operationType,
                                            req.body.transactionStatus)}
               total == Cardinality(passing)
               pageSize == resp.data.pageSize
               start == (resp.data.pageNumber - 1) * pageSize
           IN  /\ resp.data.total = total
               /\ pageSize > 0 => resp.data.totalPages = PagesNeeded(total, pageSize)
               /\ resp.data.hasMore = (start + pageSize < total)
               /\ \A k \in 1..Len(resp.data.collection) :
                    \E i \in passing :
                        parseInt(full[i].id.digits) = resp.data.collection[k].transactionId

C12_Witness ==
    /\ OperationsAnswered
    /\ req.body.operationType = "TRANSFER_OUT"
    /\ req.body.transactionStatus = "completed"
    /\ resp.data.total > 0
    /\ resp.data.total < Len(transactions[req.body.phoneNumber])
    /\ resp.data.count > 0
    /\ resp.data.count < resp.data.total
    /\ resp.data.hasMore

\* the number written after TXN_ in the id of a transaction
NumericId(tx) == parseInt(tx.id.digits)

OperationNotFound == createErrorResponse(404, "Operation not found")

OperationByIdHandled ==
    /\ req.path = "/operations/:operationId"
    /\ req.apiKey \in validChariKeys
    /\ req.body.phoneNumber # Missing

\* found, <<a transaction>> or <<>>, is what the id n resolves to in list:
\* the transaction with numeric id n; the n-th entry when there is no such
\* transaction and 1 <= n <= Len(list); nothing otherwise
ResolvesTo(list, n, found) ==
    LET withId == {i \in 1..Len(list) : NumericId(list[i]) = n}
    IN  /\ withId # {} => (found # <<>> /\ \E i \in withId : found[1] = list[i])
        /\ (withId = {} /\ 1 <= n /\ n <= Len(list)) => found = <<list[n]>>
        /\ (withId = {} /\ ~(1 <= n /\ n <= Len(list))) => found = <<>>

\* C13: GET /operations/{id} resolves the id first to the transaction whose
\* numeric id is id, falls back to the id-th list entry (1-based) only when
\* no transaction has that id and 1 <= id <= list length, and answers 404
\* 'Operation not found' when neither applies.  The lookup is also applied
\* to the prefixes of the stored list, whose ids are not their positions.
C13_OperationResolution ==
    OperationByIdHandled
        => LET list == TransactionsOf(mockData, req.body.phoneNumber)
               phone == req.body.phoneNumber
           IN  IF ParsesToNaN(req.body.operationId) THEN resp = OperationNotFound
               ELSE LET n == parseInt(req.body.operationId)
                    IN  /\ \E found \in {<<>>} \cup {<<list[i]>> : i \in 1..Len(list)} :
                            /\ ResolvesTo(list, n, found)
                            /\ resp = IF found = <<>> THEN OperationNotFound
                                      ELSE createResponse(
                                              transactionToOperation(found[1], phone, n))
                        /\ \A k \in 0..Len(list) :
                            ResolvesTo(SubSeq(list, 1, k), n,
                                       FindOperation(SubSeq(list, 1, k), n))

C13_Witness ==
    /\ OperationByIdHandled
    /\ req.body.phoneNumber = "+212600000004"
    /\ req.body.operationId = <<"5">>
    /\ Len(transactions["+212600000004"]) = 25
    /\ NumericId(transactions["+212600000004"][5]) = 21
    /\ resp.code = 200
    /\ resp.data.transactionId = 5
    /\ resp.data.operationId = 5
    /\ FindOperation(SubSeq(transactions["+212600000004"], 1, 10), 5)
            = <<transactions["+212600000004"][5]>>

\* the operations the last response shows: the page of GET /operations or
\* the single operation of GET /operations/{id}
ShownOperations ==
    IF OperationsAnswered THEN resp.data.collection
    ELSE IF OperationByIdHandled /\ resp.code = 200 THEN <<resp.data>>
    ELSE <<>>

\* the stored transaction an operation of the last response was made from
SourceOf(op) ==
    LET list == TransactionsOf(mockData, req.body.phoneNumber)
    IN  list[CHOOSE i \in 1..Len(list) : NumericId(list[i]) = op.transactionId]

\* type values of every kind: the five the generator writes, and others
TypeValues ==
    {"CASHIN", "CASHOUT", "TRANSFER_IN", "TRANSFER_OUT", "BILL_PAYMENT",
     "REFUND", "cashin", "Transfer_In", Missing}

\* the transactions the view is applied to beside the stored ones: a stored
\* transaction of the last response with its type replaced
Retyped(tx) == {[tx EXCEPT !.type = t] : t \in TypeValues}

TypeCode(type) ==
    IF type = "CASHIN" THEN 1
    ELSE IF type = "CASHOUT" THEN 2
    ELSE IF type \in {"TRANSFER_IN", "TRANSFER_OUT"} THEN 3
    ELSE IF type = "BILL_PAYMENT" THEN 4
    ELSE 0

OperationFields ==
    {"operationId", "transactionId", "transactionReference", "amount", "reason",
     "operationType", "transactionDate", "sens", "transactionStatus", "feesAmount",
     "totalAmount", "transactionFeesId", "sender", "receiver", "beneficiary",
     "accountNumber", "beneficiaryName", "currency", "balanceAfter"}

Repriced(tx) == {[tx EXCEPT !.amount = a] : a \in {tx.amount, -tx.amount, -1, 0, 1}}

\* C15: the operation's amount and totalAmount are the absolute value of
\* tx.amount, feesAmount is 0, sens is 1 exactly when tx.amount > 0 and 2
\* otherwise, and tx.amount is +amount when sens = 1 and -amount when
\* sens = 2.
C15_AmountAndDirection ==
    \A k \in 1..Len(ShownOperations) :
        \A tx \in Repriced(SourceOf(ShownOperations[k])) :
            LET op == IF tx = SourceOf(ShownOperations[k]) THEN ShownOperations[k]
                      ELSE transactionToOperation(tx, req.body.phoneNumber, k)
            IN  /\ op.amount >= 0
                /\ op.amount \in {tx.amount, -tx.amount}
                /\ op.totalAmount = op.amount
                /\ op.feesAmount = 0
                /\ op.sens \in {1, 2}
                /\ op.sens = 1 <=> tx.amount > 0
                /\ tx.amount = IF op.sens = 1 THEN op.amount ELSE -op.amount

C15_Witness ==
    /\ OperationsAnswered
    /\ \E k \in 1..Len(resp.data.collection) :
            LET op == resp.data.collection[k]
            IN  op.sens = 2 /\ SourceOf(op).amount < 0 /\ op.amount = -SourceOf(op).amount
    /\ \E k \in 1..Len(resp.data.collection) :
            LET op == resp.data.collection[k]
            IN  op.sens = 1 /\ SourceOf(op).amount > 0 /\ op.totalAmount = SourceOf(op).amount

\* descriptions with the first phone-shaped text (+212 and nine digits) each
\* one holds
DescriptionsWithPhone ==
    {<<"Transfer from +212611111111", "+212611111111">>,
     <<"Transfer from +212622222222", "+212622222222">>,
     <<"Transfer from +212633333333", "+212633333333">>,
     <<"Transfer to +212644444444", "+212644444444">>,
     <<"Transfer to +212655555555", "+212655555555">>,
     <<"From +212611111111 for +212644444444", "+212611111111">>}

\* descriptions that hold no phone-shaped text
DescriptionsWithoutPhone ==
    {"Salary payment", "Family transfer", "Payment to merchant", "Friend transfer",
     "Electricity bill", "ATM deposit", "Transfer to +21264444", "Transfer to 0644444444"}

FirstPhoneIn(description) ==
    IF \E d \in DescriptionsWithPhone : d[1] = description
    THEN (CHOOSE d \in DescriptionsWithPhone : d[1] = description)[2]
    ELSE Null

\* a stored transaction of the last response with every type and description
Redescribed(tx) ==
    {[tx EXCEPT !.type = t, !.description = d] :
        t \in {"CASHIN", "CASHOUT", "TRANSFER_IN", "TRANSFER_OUT", "BILL_PAYMENT"},
        d \in {dp[1] : dp \in DescriptionsWithPhone} \cup DescriptionsWithoutPhone}

\* the counter-parties of the operation op are those of the transaction tx
\* owned by phone
CounterParties(op, tx, phone) ==
    /\ tx.type = "TRANSFER_OUT"
        => /\ op.sender = phone
           /\ op.receiver = FirstPhoneIn(tx.description)
           /\ op.beneficiary = tx.description
    /\ tx.type = "TRANSFER_IN"
        => /\ op.receiver = phone
           /\ op.sender = FirstPhoneIn(tx.description)
           /\ op.beneficiary = tx.description
    /\ tx.type \in {"CASHIN", "CASHOUT"} => (op.sender = phone /\ op.receiver = phone)
    /\ tx.type = "BILL_PAYMENT" => (op.sender = phone /\ op.receiver = Null)

\* C16: for TRANSFER_OUT sender = owner phone and receiver = the first
\* phone-shaped text of the description, or none; for TRANSFER_IN receiver =
\* owner phone and sender = that text or none; in both beneficiary = the
\* description; for CASHIN and CASHOUT sender = receiver = owner phone; for
\* BILL_PAYMENT sender = owner phone and receiver = none; a description
\* without a phone gives an operation all the same.
C16_CounterParties ==
    /\ \A k \in 1..Len(ShownOperations) :
            CounterParties(ShownOperations[k], SourceOf(ShownOperations[k]),
                           req.body.phoneNumber)
    /\ ShownOperations # <<>>
        => \A tx \in Redescribed(SourceOf(ShownOperations[1])) :
              LET view == transactionToOperation(tx, req.body.phoneNumber, 1)
              IN  /\ CounterParties(view, tx, req.body.phoneNumber)
                  /\ DOMAIN view = OperationFields

C16_Witness ==
    /\ OperationsAnswered
    /\ \E k \in 1..Len(resp.data.collection) :
            LET op == resp.data.collection[k]
            IN  /\ SourceOf(op).type = "TRANSFER_IN"
                /\ op.sender \in {"+212611111111", "+212622222222", "+212633333333"}
                /\ op.receiver = req.body.phoneNumber
    /\ \E k \in 1..Len(resp.data.collection) :
            LET op == resp.data.collection[k]
            IN  /\ SourceOf(op).type = "TRANSFER_OUT"
                /\ op.receiver = Null
                /\ op.sender = req.body.phoneNumber
                /\ op.beneficiary = SourceOf(op).description

\* the last request is an answered GET /operations without filters
UnfilteredOperationsAnswered ==
    /\ OperationsAnswered
    /\ req.body.operationType = Missing
    /\ req.body.transactionStatus = Missing

\* the answer of GET /customers/transactions to the same phone and the same
\* page as the last GET /operations request
SamePageOfTransactions ==
    CustomersTransactions(mockData,
        [phoneNumber |-> req.body.phoneNumber, limit |-> req.body.pageSize,
         offset |-> Absent, page |-> req.body.pageNumber]).resp

\* C17: for the same phone and no filters, the k-th record of GET
\* /operations describes the k-th record of GET /customers/transactions:
\* transactionId is the number in the transaction id, amount the absolute
\* transaction amount, transactionDate the date, reason the description,
\* balanceAfter the same; and both endpoints report the same total.
C17_ViewsCoherent ==
    UnfilteredOperationsAnswered
        => LET other == SamePageOfTransactions
           IN  /\ other.code = 200
               /\ other.data.total = resp.data.total
               /\ Len(other.data.transactions) = Len(resp.data.collection)
               /\ \A k \in 1..Len(resp.data.collection) :
                    LET op == resp.data.collection[k]
                        tx == other.data.transactions[k]
                    IN  /\ tx.id.prefix = "TXN_"
                        /\ \E j \in 1..Len(tx.id.digits) :
                            /\ SubSeq(tx.id.digits, j, Len(tx.id.digits))
                                    = StringOf(op.transactionId)
                            /\ \A i \in 1..(j - 1) : tx.id.digits[i] = "0"
                        /\ op.amount \in {tx.amount, -tx.amount} /\ op.amount >= 0
                        /\ op.transactionDate = tx.date
                        /\ op.reason = tx.description
                        /\ op.balanceAfter = tx.balanceAfter

C17_Witness ==
    /\ UnfilteredOperationsAnswered
    /\ req.body.phoneNumber = "+212600000004"
    /\ req.body.pageSize = Given(<<"1", "0">>)
    /\ req.body.pageNumber = Given(<<"2">>)
    /\ resp.data.total = 25
    /\ resp.data.count = 10
    /\ resp.data.collection[1].transactionId = 15
    /\ resp.data.collection[1].reason = transactions["+212600000004"][11].description
    /\ resp.data.collection[1].balanceAfter = transactions["+212600000004"][11].balanceAfter

\* minutes from now to a generated date (negative: the date is in the past)
MinutesFromNow(date) == date.hours * 60 + date.minutes - date.daysAgo * 24 * 60

\* the id text TXN_ followed by n written with at least three digits
IdOfNumber(n) ==
    [prefix |-> "TXN_",
     digits |-> IF n < 10 THEN <<"0", "0">> \o StringOf(n)
                ELSE IF n < 100 THEN <<"0">> \o StringOf(n)
                ELSE StringOf(n)]

\* C18: generateFakeTransactions(count) returns count records whose ids are
\* exactly TXN_001 .. TXN_{count}, newest first: along the list the dates
\* strictly decrease and the numeric ids strictly decrease from count to 1.
C18_GeneratedIdsAndOrder ==
    generated.called
        => LET list == generated.list
               count == generated.count
           IN  /\ Len(list) = count
               /\ {list[j].id : j \in 1..Len(list)} = {IdOfNumber(n) : n \in 1..count}
               /\ \A j \in 1..Len(list) : list[j].id = IdOfNumber(count - j + 1)
               /\ \A j \in 1..(Len(list) - 1) :
                    /\ MinutesFromNow(list[j].date) > MinutesFromNow(list[j + 1].date)
                    /\ NumericId(list[j]) > NumericId(list[j + 1])

C18_Witness ==
    /\ generated.called
    /\ generated.count = 12
    /\ Len(generated.list) = 12
    /\ generated.list[1].id = [prefix |-> "TXN_", digits |-> <<"0", "1", "2">>]
    /\ generated.list[12].id = [prefix |-> "TXN_", digits |-> <<"0", "0", "1">>]
    /\ generated.list[1].date.daysAgo = 1
    /\ generated.list[12].date.daysAgo = 12

\* the seed balance plus the stored amounts of the records from the oldest
\* (the last of the list) up to record j, in centimes
RECURSIVE Replayed(_, _)
Replayed(list, j) ==
    IF j > Len(list) THEN StartingBalance \div 10
    ELSE Replayed(list, j + 1) + list[j].amount

\* C19: replaying a generated list from oldest to newest, adding each stored
\* signed amount to the running balance from the seed balance on, gives every
\* record's stored balanceAfter exactly.
C19_BalanceReplay ==
    generated.called
        => \A j \in 1..Len(generated.list) :
              Replayed(generated.list, j) = generated.list[j].balanceAfter

\* the transaction list of a phone is the same before and after the step
SameTransactionList(phoneNumber) ==
    /\ phoneNumber \in DOMAIN transactions <=> phoneNumber \in DOMAIN transactions'
    /\ phoneNumber \in DOMAIN transactions
        => transactions'[phoneNumber] = transactions[phoneNumber]

\* C20: no request other than unregister changes a transaction list, and an
\* executed transfer leaves the lists of its sender and its recipient as
\* they were.
C20_TransactionListsImmutable ==
    [][/\ req'.path # "/customers/unregister" => transactions' = transactions
       /\ (req'.path = "/operations/transfer" /\ resp'.code = 200)
            => /\ SameTransactionList(req'.body.customerPhoneNumber)
               /\ SameTransactionList(req'.body.recipientPhoneNumber)]_vars

C20_Witness ==
    /\ req.path = "/operations/transfer"
    /\ resp.code = 200
    /\ req.body.customerPhoneNumber = "+212600000004"
    /\ req.body.recipientPhoneNumber = "+212600000003"
    /\ balances["+212600000004"] = 314775
    /\ balances["+212600000003"] = 25000
    /\ transactions = initialTransactions(0)
    /\ Len(transactions["+212600000004"]) = TxCount
    /\ Len(transactions["+212600000003"]) = TxCount

\* C21: a request answered with a 4xx status (a missing required field, an
\* invalid confirmation code, a sender that is not activated, an insufficient
\* balance, a missing or invalid API key, a record that is not found) leaves
\* customers, registrations, pins, balances and transactions as they were.
C21_RejectedRequestsWriteNothing ==
    [][(resp'.code >= 400 /\ resp'.code <= 499) => StoreUnchanged]_vars

C21_Witness ==
    /\ req.method = "POST" /\ req.path = "/customers/confirm"
    /\ req.apiKey \in validChariKeys
    /\ req.body.phoneNumber = FreshPhone
    /\ req.body.code = "1234"
    /\ resp = createErrorResponse(400, "Invalid confirmation code")
    /\ FreshPhone \notin DOMAIN customers

\* the sum of the balances stored for the phones of S
RECURSIVE SumOver(_, _)
SumOver(bals, S) ==
    IF S = {} THEN 0
    ELSE LET p == CHOOSE q \in S : TRUE
         IN  bals[p] + SumOver(bals, S \ {p})

TotalBalance(bals) == SumOver(bals, DOMAIN bals)

\* the step handles a transfer request that is executed
TransferExecuted ==
    /\ req'.path = "/operations/transfer"
    /\ resp'.code = 200

\* C22: an executed transfer, the one of a phone to itself included, leaves
\* the sum of all stored balances as it was and leaves the balance of every
\* phone other than its sender and its recipient as it was.
C22_TransferConservesMoney ==
    [][TransferExecuted
        => LET sender == req'.body.customerPhoneNumber
               recipient == req'.body.recipientPhoneNumber
           IN  /\ TotalBalance(balances') = TotalBalance(balances)
               /\ \A p \in (DOMAIN balances \cup DOMAIN balances') \ {sender, recipient} :
                    /\ p \in DOMAIN balances /\ p \in DOMAIN balances'
                    /\ balances'[p] = balances[p]
               /\ sender = recipient
                    => StoredBalance(balances', sender) = StoredBalance(balances, sender)]_vars

C22_Witness ==
    /\ req.path = "/operations/transfer"
    /\ resp.code = 200
    /\ req.body.customerPhoneNumber = "+212600000004"
    /\ req.body.recipientPhoneNumber = "+212600000004"
    /\ req.body.amount = 10000
    /\ balances = initialBalances

\* the answers of the three endpoints that report a balance, for one phone
BalanceReportedBy(handler, phoneNumber) ==
    LET query == [phoneNumber |-> phoneNumber]
    IN  CASE handler = "balance" -> CustomersBalance(mockData, query).resp
          [] handler = "status" -> CustomersStatus(mockData, query).resp
          [] handler = "info" -> CustomersInfo(mockData, query).resp

\* C23: for every phone whose customer record has status 1 or more, GET
\* /customers/balance, GET /customers/status and GET /customers/info (when it
\* finds the customer) report the same balance, the stored balance that
\* transfer reads and writes, 0 when no balance or the balance 0 is stored.
C23_BalanceViewsAgree ==
    \A p \in Phones :
        (p \in DOMAIN customers /\ customers[p].status >= 1)
            => LET stored == StoredBalance(balances, p)
                   b == BalanceReportedBy("balance", p)
                   st == BalanceReportedBy("status", p)
                   info == BalanceReportedBy("info", p)
               IN  /\ b.code = 200 /\ b.data.balance = stored
                   /\ st.code = 200 /\ st.data.balance = stored
                   /\ info.code = 200 => info.data.balance = stored

\* the answer of GET /operations/k for the phone of the last request
OperationDetail(k) ==
    GetOperation(mockData, [phoneNumber |-> req.body.phoneNumber],
                 [operationId |-> StringOf(k)]).resp

\* C24: every operation that GET /operations returns without filters, on
\* any page, is the operation that GET /operations/k returns for the same
\* phone and the operationId k of the listed operation: the two have the
\* same transactionId.
C24_OperationIdRoundTrip ==
    UnfilteredOperationsAnswered
        => \A i \in 1..Len(resp.data.collection) :
              LET op == resp.data.collection[i]
                  detail == OperationDetail(op.operationId)
              IN  /\ detail.code = 200
                  /\ detail.data.transactionId = op.transactionId

\* the phone has a customer record of status 4 or 5
Locked(phoneNumber) ==
    /\ phoneNumber \in DOMAIN customers
    /\ customers[phoneNumber].status \in {4, 5}

\* C25: a login request for a phone of status 4 or 5 is never answered
\* logged: true, and a transfer request never lowers the balance of a sender
\* of status 4 or 5.
C25_LockedNeverServed ==
    [][/\ (req'.path = "/customers/login" /\ Locked(req'.body.phoneNumber))
            => ~(resp'.code = 200 /\ resp'.data.logged)
       /\ (req'.path = "/operations/transfer" /\ Locked(req'.body.customerPhoneNumber))
            => StoredBalance(balances', req'.body.customerPhoneNumber)
                    >= StoredBalance(balances, req'.body.customerPhoneNumber)]_vars

\* the pin stores a store is compared with for a login of one phone: the
\* current one, the initial one, the empty one, the ones giving every phone
\* the same pin, and the current one with the phone's pin set or removed
OtherPins(phoneNumber) ==
    {pins, initialPins, [p \in {} |-> Missing], Delete(pins, phoneNumber)}
        \cup {[p \in Phones |-> n] : n \in PinValues}
        \cup {Put(pins, phoneNumber, n) : n \in PinValues \cup {"9999"}}

LoginFailed == createResponse([logged |-> FALSE, remainingAttempts |-> 2])

LoginSucceeded == createResponse([logged |-> TRUE, remainingAttempts |-> 3])

\* C26: the answer to a login request is the same in any two stores that
\* differ only in their pins; it is logged: true with remainingAttempts 3
\* exactly when the customer's status is 3 or more and the pin is "1234", and
\* for such a customer and any other pin it is logged: false with
\* remainingAttempts 2.
C26_LoginIgnoresStoredPin ==
    /\ \A body \in PinBodies(Phones) :
          LET answer == CustomersLogin(mockData, body).resp
              activated == /\ body.phoneNumber \in DOMAIN customers
                           /\ customers[body.phoneNumber].status >= 3
          IN  /\ \A other \in OtherPins(body.phoneNumber) :
                    CustomersLogin([mockData EXCEPT !.pins = other], body).resp = answer
              /\ answer = LoginSucceeded <=> (activated /\ body.pin = "1234")
              /\ (activated /\ body.pin \notin {"1234", Missing}) => answer = LoginFailed
    /\ (req.path = "/customers/login" /\ req.apiKey \in validChariKeys)
          => \A other \in OtherPins(req.body.phoneNumber) :
                resp = CustomersLogin([mockData EXCEPT !.pins = other], req.body).resp

\* the pin stored for the phone has been changed, and the login still takes
\* "1234" and refuses the stored pin
C26_Witness ==
    /\ req.path = "/customers/login"
    /\ req.body = PinBody("+212600000004", "1234")
    /\ resp = LoginSucceeded
    /\ pins["+212600000004"] = "0000"
    /\ CustomersLogin(mockData, PinBody("+212600000004", "0000")).resp = LoginFailed

\* the status stored for the phone, 0 when it has no customer record
StoredStatus(custs, phoneNumber) ==
    IF phoneNumber \in DOMAIN custs THEN custs[phoneNumber].status ELSE 0

\* C27: the phone that starts with no record gets status 2 only when it has
\* a registration record (a register request has succeeded), gets status 3
\* only from status 2 (a confirm request has succeeded), and whenever its
\* status is 1 or more it has a registration record.
C27_LifecycleOrderEnforced ==
    [][LET before == StoredStatus(customers, FreshPhone)
           after == StoredStatus(customers', FreshPhone)
       IN  /\ (after = 2 /\ before # 2) => FreshPhone \in DOMAIN registrations
           /\ (after = 3 /\ before # 3) => before = 2
           /\ after >= 1 => FreshPhone \in DOMAIN registrations']_vars

====
